---- MODULE Spec2Model ----
(***************************************************************************)
(* Model of the browser visual-novel player of src/game-engine.js:         *)
(* GameState (current node, flags, visited nodes, auto/skip modes), the    *)
(* NovelGameEngine handlers (start, text-box click, choice selection,      *)
(* auto/skip toggles, save/load through localStorage, return to title)     *)
(* and the setTimeout callbacks that displayText schedules.                *)
(***************************************************************************)
EXTENDS Integers, Sequences, FiniteSets, TLC

\* ------------------------------------------------------------------ bounds
\* Most setTimeout callbacks pending at once, in the specification with saves.
MaxTimers == 1
\* Most setTimeout callbacks pending at once, in the specification without saves.
MaxPlayTimers == 2

\* --------------------------------------------------------- program constants
\* renderSaveSlots: for (let i = 1; i <= 5; i++)
NumSlots == 5
\* displayText: delay of the skip-mode timer, in milliseconds
SkipDelay == 500
\* displayText: delay of the auto-mode timer, in milliseconds
AutoDelay == 2500

\* JavaScript null (GameState.currentNodeId before start)
Null == "(null)"
\* GameState.scenario before loadScenario has assigned it
NoScenario == [null |-> TRUE]
\* An absent/falsy node.next or choice.flag
Absent == ""

\* ------------------------------------------------------------ scenario.json
\* The documents loadScenario may fetch.  The engine reads startNode and, of
\* each node, type, next and choices (of each choice, next and flag).
Choice(next, flag) == [next |-> next, flag |-> flag]

Text(type, next) == [type |-> type, next |-> next, choices |-> <<>>]

Choices(choices) == [type |-> "choice", next |-> Absent, choices |-> choices]

\* A story node, a choice whose choices carry a flag (looping back to the
\* start) and no flag, and a terminal node.
LoopDoc ==
    [startNode |-> "a",
     nodes |-> [a |-> Text("story", "b"),
                b |-> Choices(<<Choice("a", "x"), Choice("e", Absent)>>),
                e |-> Text("dialogue", Absent)]]

\* References to a node that the document does not hold (zz), from a choice
\* and from a text node: the engine never validates references.
DanglingDoc ==
    [startNode |-> "a",
     nodes |-> [a |-> Choices(<<Choice("d", Absent), Choice("zz", "x")>>),
                d |-> Text("dialogue", "zz")]]

\* A choice that is its own successor, with choices that carry a flag, a
\* second flag and no flag.
FlagsDoc ==
    [startNode |-> "a",
     nodes |-> [a |-> Choices(<<Choice("a", "x"), Choice("a", "y"), Choice("a", Absent)>>)]]

\* Two text nodes in a row before the choice, a loop and a terminal node.
ChainDoc ==
    [startNode |-> "a",
     nodes |-> [a |-> Text("story", "b"),
                b |-> Text("dialogue", "c"),
                c |-> Choices(<<Choice("a", "x"), Choice("e", Absent)>>),
                e |-> Text("story", Absent)]]

\* A startNode that is not a key of nodes: loadScenario stores whatever
\* response.json() returns.
BadStartDoc ==
    [startNode |-> "zz",
     nodes |-> [a |-> Text("story", Absent)]]

Documents == {LoopDoc, DanglingDoc, FlagsDoc, BadStartDoc}

PlayDocuments == {ChainDoc, DanglingDoc}

\* Most choices of a choice node in the documents above.
MaxChoices == 3

\* The slot the player saves to, and the slots the player loads from (the
\* last one is never written: it stays empty).
SaveSlots == {1}

LoadSlots == {1, NumSlots}

\* The reading of the clock in toJSON (new Date().toISOString()).
Now == "2026-01-01T00:00:00.000Z"

\* ------------------------------------------------------------------- state
VARIABLES
    scenario,           \* GameState.scenario: NoScenario or the parsed document
    isReady,            \* NovelGameEngine.isReady
    fetchPending,       \* loadScenario is still awaiting fetch/json
    currentNodeId,      \* GameState.currentNodeId
    flags,              \* GameState.flags (array)
    visitedNodes,       \* GameState.visitedNodes (array)
    autoMode,           \* GameState.autoMode
    skipMode,           \* GameState.skipMode
    timers,             \* pending setTimeout callbacks, in scheduling order
    slots,              \* localStorage: save_slot_1 .. save_slot_5
    titleScreenDisplay, \* elements.titleScreen.style.display
    textBoxDisplay,     \* elements.textBox.style.display
    choiceBoxDisplay,   \* elements.choiceBox.style.display
    choiceButtons,      \* node whose choice buttons are in elements.choiceBox
    timerCap,           \* bound on Len(timers) of the specification, fixed at Init
    savedAt,            \* history: per slot, the session as it was when saveGame wrote it
    threw,              \* the last handler ended in an uncaught TypeError
    lastOp              \* the last handler or callback that ran

vars == <<scenario, isReady, fetchPending, currentNodeId, flags, visitedNodes,
          autoMode, skipMode, timers, slots, titleScreenDisplay,
          textBoxDisplay, choiceBoxDisplay, choiceButtons, timerCap,
          savedAt, threw, lastOp>>

SlotKeys == 1..NumSlots

\* Array.prototype.includes
Includes(arr, x) == \E i \in DOMAIN arr : arr[i] = x

\* ------------------------------------------------------------- GameState
\* The part of the engine that displayCurrentNode and its callees read and
\* write, as one record.
Session ==
    [currentNodeId |-> currentNodeId, flags |-> flags,
     visitedNodes |-> visitedNodes, autoMode |-> autoMode, skipMode |-> skipMode,
     timers |-> timers, textBoxDisplay |-> textBoxDisplay,
     choiceBoxDisplay |-> choiceBoxDisplay, choiceButtons |-> choiceButtons]

\* new GameState()
NewGameState(st) ==
    [st EXCEPT !.currentNodeId = Null, !.flags = <<>>, !.visitedNodes = <<>>,
               !.autoMode = FALSE, !.skipMode = FALSE]

\* addFlag without the includes() test.
addFlag_NoDedup(st, flag) ==
    IF flag # Absent THEN [st EXCEPT !.flags = Append(@, flag)] ELSE st

\* addFlag that starts the array over.
addFlag_Overwrites(st, flag) ==
    IF flag # Absent /\ ~Includes(st.flags, flag)
    THEN [st EXCEPT !.flags = <<flag>>]
    ELSE st

addFlag(st, flag) ==
    IF flag # Absent /\ ~Includes(st.flags, flag)
    THEN [st EXCEPT !.flags = Append(@, flag)]
    ELSE st

\* visitNode without the includes() test.
visitNode_NoDedup(st, nodeId) == [st EXCEPT !.visitedNodes = Append(@, nodeId)]

\* visitNode that puts the id in front.
visitNode_Prepends(st, nodeId) ==
    IF ~Includes(st.visitedNodes, nodeId)
    THEN [st EXCEPT !.visitedNodes = <<nodeId>> \o @]
    ELSE st

visitNode(st, nodeId) ==
    IF ~Includes(st.visitedNodes, nodeId)
    THEN [st EXCEPT !.visitedNodes = Append(@, nodeId)]
    ELSE st

\* JSON.stringify(state.toJSON()): the text stored in a slot
toJSON(st, now) == <<st.currentNodeId, st.flags, st.visitedNodes, now>>

\* JSON.parse of a slot's text
JSONparse(text) ==
    [currentNodeId |-> text[1], flags |-> text[2], visitedNodes |-> text[3],
     timestamp |-> text[4]]

\* fromJSON that forgets visitedNodes.
fromJSON_KeepsVisited(st, data) ==
    [st EXCEPT !.currentNodeId = data.currentNodeId, !.flags = data.flags]

\* fromJSON that also switches the modes off.
fromJSON_ResetsModes(st, data) ==
    [st EXCEPT !.currentNodeId = data.currentNodeId, !.flags = data.flags,
               !.visitedNodes = data.visitedNodes,
               !.autoMode = FALSE, !.skipMode = FALSE]

fromJSON(st, data) ==
    [st EXCEPT !.currentNodeId = data.currentNodeId, !.flags = data.flags,
               !.visitedNodes = data.visitedNodes]

\* ------------------------------------------------------- NovelGameEngine
HasNode(nodeId) == nodeId \in DOMAIN scenario.nodes

\* A timer remembers the node it was scheduled for; left is history: the
\* player has since left that display by a click, a choice, a load or a
\* return to title.
Timer(nodeId, delay) == [node |-> nodeId, delay |-> delay, left |-> FALSE]

displayText(st, nodeId) ==
    LET shown == [st EXCEPT !.choiceBoxDisplay = "none", !.textBoxDisplay = "block"]
    IN  IF st.autoMode \/ st.skipMode
        THEN [shown EXCEPT !.timers =
                 Append(@, Timer(nodeId, IF st.skipMode THEN SkipDelay ELSE AutoDelay))]
        ELSE shown

\* displayChoice that leaves skipMode alone.
displayChoice_KeepsSkip(st, nodeId) ==
    [st EXCEPT !.autoMode = FALSE, !.textBoxDisplay = "block",
               !.choiceBoxDisplay = "flex", !.choiceButtons = nodeId]

displayChoice(st, nodeId) ==
    [st EXCEPT !.autoMode = FALSE, !.skipMode = FALSE, !.textBoxDisplay = "block",
               !.choiceBoxDisplay = "flex", !.choiceButtons = nodeId]

\* displayCurrentNode without its call of visitNode.
displayCurrentNode_NoVisit(st) ==
    IF ~HasNode(st.currentNodeId)
    THEN st
    ELSE IF scenario.nodes[st.currentNodeId].type = "choice"
         THEN displayChoice(st, st.currentNodeId)
         ELSE displayText(st, st.currentNodeId)

displayCurrentNode(st) ==
    IF ~HasNode(st.currentNodeId)
    THEN st
    ELSE LET visited == visitNode(st, st.currentNodeId)
         IN  IF scenario.nodes[st.currentNodeId].type = "choice"
             THEN displayChoice(visited, st.currentNodeId)
             ELSE displayText(visited, st.currentNodeId)

moveToNode(st, nodeId) == displayCurrentNode([st EXCEPT !.currentNodeId = nodeId])

\* History only: every pending timer's display has been left.
MarkLeft(st) ==
    [st EXCEPT !.timers = [i \in DOMAIN @ |-> [@[i] EXCEPT !.left = TRUE]]]

\* Writes a session record back to the variables.
Becomes(st) ==
    /\ Len(st.timers) <= timerCap
    /\ currentNodeId' = st.currentNodeId
    /\ flags' = st.flags
    /\ visitedNodes' = st.visitedNodes
    /\ autoMode' = st.autoMode
    /\ skipMode' = st.skipMode
    /\ timers' = st.timers
    /\ textBoxDisplay' = st.textBoxDisplay
    /\ choiceBoxDisplay' = st.choiceBoxDisplay
    /\ choiceButtons' = st.choiceButtons

sessionVars == <<currentNodeId, flags, visitedNodes, autoMode, skipMode, timers,
                 textBoxDisplay, choiceBoxDisplay, choiceButtons>>

storeVars == <<slots, savedAt>>

engineVars == <<scenario, isReady, fetchPending>>

InitWith(cap) ==
    /\ scenario = NoScenario
    /\ isReady = FALSE
    /\ fetchPending = TRUE
    /\ currentNodeId = Null
    /\ flags = <<>>
    /\ visitedNodes = <<>>
    /\ autoMode = FALSE
    /\ skipMode = FALSE
    /\ timers = <<>>
    /\ slots = [k \in SlotKeys |-> <<>>]
    /\ savedAt = [k \in SlotKeys |-> <<>>]
    /\ titleScreenDisplay = "flex"
    /\ textBoxDisplay = "none"
    /\ choiceBoxDisplay = "none"
    /\ choiceButtons = Null
    /\ timerCap = cap
    /\ threw = FALSE
    /\ lastOp = "init"

\* The state after new NovelGameEngine(): a fresh GameState, the fetch of
\* loadScenario in flight, localStorage empty.  The title screen is the only
\* screen shown (the engine shows the text box and the choice box itself, and
\* hides the title screen, when a node is displayed).
Init == InitWith(MaxTimers)

InitPlay == InitWith(MaxPlayTimers)

\* loadScenario resumes after its awaits: the fetch and the parse succeeded.
LoadScenarioOk(doc) ==
    /\ fetchPending
    /\ fetchPending' = FALSE
    /\ scenario' = doc
    /\ isReady' = TRUE
    /\ threw' = FALSE
    /\ lastOp' = "loadScenario"
    /\ UNCHANGED <<sessionVars, storeVars, titleScreenDisplay, timerCap>>

\* loadScenario resumes in its catch block: fetch or json() rejected.
LoadScenarioFail ==
    /\ fetchPending
    /\ fetchPending' = FALSE
    /\ threw' = FALSE
    /\ lastOp' = "loadScenarioFailed"
    /\ UNCHANGED <<scenario, isReady, sessionVars, storeVars,
                   titleScreenDisplay, timerCap>>

\* Click on the start button of the title screen.
StartGame ==
    /\ titleScreenDisplay = "flex"
    /\ IF ~isReady
       THEN UNCHANGED <<sessionVars, titleScreenDisplay>>
       ELSE /\ titleScreenDisplay' = "none"
            /\ Becomes(moveToNode(Session, scenario.startNode))
    /\ threw' = FALSE
    /\ lastOp' = "startGame"
    /\ UNCHANGED <<engineVars, storeVars, timerCap>>

\* Click on the text box.
OnTextBoxClick ==
    /\ textBoxDisplay = "block"
    /\ IF ~HasNode(currentNodeId)
       THEN \* node is undefined: reading node.type throws
            /\ threw' = TRUE
            /\ UNCHANGED sessionVars
       ELSE LET node == scenario.nodes[currentNodeId]
            IN  /\ threw' = FALSE
                /\ IF node.type = "choice" \/ node.next = Absent
                   THEN UNCHANGED sessionVars
                   ELSE Becomes(moveToNode(MarkLeft(Session), node.next))
    /\ lastOp' = "onTextBoxClick"
    /\ UNCHANGED <<engineVars, storeVars, titleScreenDisplay, timerCap>>

\* Click on the i-th button of the choice box.
OnChoiceSelected(i) ==
    /\ choiceBoxDisplay = "flex"
    /\ choiceButtons # Null
    /\ i \in DOMAIN scenario.nodes[choiceButtons].choices
    /\ LET choice == scenario.nodes[choiceButtons].choices[i]
       IN  Becomes(moveToNode(addFlag(MarkLeft(Session), choice.flag), choice.next))
    /\ threw' = FALSE
    /\ lastOp' = "onChoiceSelected"
    /\ UNCHANGED <<engineVars, storeVars, titleScreenDisplay, timerCap>>

\* setTimeout runs callbacks of equal delay in scheduling order; a callback
\* scheduled later can run first only if its delay is shorter.
CanFire(i) ==
    /\ i \in DOMAIN timers
    /\ \A j \in 1..(i - 1) : timers[j].delay > timers[i].delay

RemoveAt(seq, i) == SubSeq(seq, 1, i - 1) \o SubSeq(seq, i + 1, Len(seq))

\* The callback without its test of node.next.
TimerFires_IgnoresNext(i) ==
    /\ CanFire(i)
    /\ Becomes(moveToNode([Session EXCEPT !.timers = RemoveAt(timers, i)],
                          scenario.nodes[timers[i].node].next))
    /\ threw' = FALSE
    /\ lastOp' = "timer"
    /\ UNCHANGED <<engineVars, storeVars, titleScreenDisplay, timerCap>>

\* The callback that displayText passed to setTimeout runs.
TimerFires(i) ==
    /\ CanFire(i)
    /\ LET node == scenario.nodes[timers[i].node]
           rest == [Session EXCEPT !.timers = RemoveAt(timers, i)]
       IN  IF node.next # Absent
           THEN Becomes(moveToNode(rest, node.next))
           ELSE Becomes(rest)
    /\ threw' = FALSE
    /\ lastOp' = "timer"
    /\ UNCHANGED <<engineVars, storeVars, titleScreenDisplay, timerCap>>

\* toggleAuto that leaves skipMode alone.
ToggleAuto_KeepsSkip ==
    /\ autoMode' = ~autoMode
    /\ threw' = FALSE
    /\ lastOp' = "toggleAuto"
    /\ UNCHANGED <<engineVars, storeVars, currentNodeId, flags, visitedNodes, timers,
                   skipMode, textBoxDisplay, choiceBoxDisplay, choiceButtons,
                   titleScreenDisplay, timerCap>>

ToggleAuto ==
    /\ autoMode' = ~autoMode
    /\ skipMode' = IF ~autoMode THEN FALSE ELSE skipMode
    /\ threw' = FALSE
    /\ lastOp' = "toggleAuto"
    /\ UNCHANGED <<engineVars, storeVars, currentNodeId, flags, visitedNodes, timers,
                   textBoxDisplay, choiceBoxDisplay, choiceButtons,
                   titleScreenDisplay, timerCap>>

ToggleSkip ==
    /\ skipMode' = ~skipMode
    /\ autoMode' = IF ~skipMode THEN FALSE ELSE autoMode
    /\ threw' = FALSE
    /\ lastOp' = "toggleSkip"
    /\ UNCHANGED <<engineVars, storeVars, currentNodeId, flags, visitedNodes, timers,
                   textBoxDisplay, choiceBoxDisplay, choiceButtons,
                   titleScreenDisplay, timerCap>>

\* openSaveScreen / openLoadScreen: renderSaveSlots reads the slots and builds
\* the slot list; closeSaveLoadScreen hides it.  They touch the DOM only.
OpenSaveScreen ==
    /\ threw' = FALSE
    /\ lastOp' = "saveLoadScreen"
    /\ UNCHANGED <<engineVars, storeVars, sessionVars, titleScreenDisplay, timerCap>>

OpenLoadScreen ==
    /\ threw' = FALSE
    /\ lastOp' = "saveLoadScreen"
    /\ UNCHANGED <<engineVars, storeVars, sessionVars, titleScreenDisplay, timerCap>>

CloseSaveLoadScreen ==
    /\ threw' = FALSE
    /\ lastOp' = "saveLoadScreen"
    /\ UNCHANGED <<engineVars, storeVars, sessionVars, titleScreenDisplay, timerCap>>

\* saveGame that writes the snapshot to every slot.
SaveGame_WritesAll(k) ==
    /\ slots' = [j \in SlotKeys |-> toJSON(Session, Now)]
    /\ savedAt' = [j \in SlotKeys |-> <<currentNodeId, flags, visitedNodes>>]
    /\ threw' = FALSE
    /\ lastOp' = "saveGame"
    /\ UNCHANGED <<engineVars, sessionVars, titleScreenDisplay, timerCap>>

\* Click on slot k of a slot list rendered for saving.
SaveGame(k) ==
    /\ slots' = [slots EXCEPT ![k] = toJSON(Session, Now)]
    /\ savedAt' = [savedAt EXCEPT ![k] = <<currentNodeId, flags, visitedNodes>>]
    /\ threw' = FALSE
    /\ lastOp' = "saveGame"
    /\ UNCHANGED <<engineVars, sessionVars, titleScreenDisplay, timerCap>>

\* loadGame that treats an empty slot as a save of a new game.
LoadGame_EmptyResets(k) ==
    /\ IF slots[k] = <<>>
       THEN /\ threw' = FALSE
            /\ Becomes(NewGameState(Session))
            /\ UNCHANGED titleScreenDisplay
       ELSE LET restored == fromJSON(MarkLeft(Session), JSONparse(slots[k]))
            IN  /\ titleScreenDisplay' = "none"
                /\ IF scenario = NoScenario
                   THEN /\ threw' = TRUE
                        /\ Becomes(restored)
                   ELSE /\ threw' = FALSE
                        /\ Becomes(displayCurrentNode(restored))
    /\ lastOp' = "loadGame"
    /\ UNCHANGED <<engineVars, storeVars, timerCap>>

\* Click on slot k of a slot list rendered for loading.
LoadGame(k) ==
    /\ IF slots[k] = <<>>
       THEN /\ threw' = FALSE
            /\ UNCHANGED <<sessionVars, titleScreenDisplay>>
       ELSE LET restored == fromJSON(MarkLeft(Session), JSONparse(slots[k]))
            IN  /\ titleScreenDisplay' = "none"
                /\ IF scenario = NoScenario
                   THEN \* displayCurrentNode reads this.state.scenario.nodes
                        /\ threw' = TRUE
                        /\ Becomes(restored)
                   ELSE /\ threw' = FALSE
                        /\ Becomes(displayCurrentNode(restored))
    /\ lastOp' = "loadGame"
    /\ UNCHANGED <<engineVars, storeVars, timerCap>>

\* Click on the title button; confirmed is the answer to confirm().
ReturnToTitle(confirmed) ==
    /\ IF confirmed
       THEN /\ Becomes([NewGameState(MarkLeft(Session)) EXCEPT
                           !.textBoxDisplay = "none", !.choiceBoxDisplay = "none"])
            /\ titleScreenDisplay' = "flex"
       ELSE UNCHANGED <<sessionVars, titleScreenDisplay>>
    /\ threw' = FALSE
    /\ lastOp' = IF confirmed THEN "returnToTitle" ELSE "returnToTitleDeclined"
    /\ UNCHANGED <<engineVars, storeVars, timerCap>>

\* Every handler and callback of the engine, on the documents of Documents.
Next ==
    \/ \E doc \in Documents : LoadScenarioOk(doc)
    \/ LoadScenarioFail
    \/ StartGame
    \/ OnTextBoxClick
    \/ \E i \in 1..MaxChoices : OnChoiceSelected(i)
    \/ \E i \in 1..MaxTimers : TimerFires(i)
    \/ ToggleAuto
    \/ ToggleSkip
    \/ OpenSaveScreen
    \/ OpenLoadScreen
    \/ CloseSaveLoadScreen
    \/ \E k \in SaveSlots : SaveGame(k)
    \/ \E k \in LoadSlots : LoadGame(k)
    \/ \E confirmed \in BOOLEAN : ReturnToTitle(confirmed)

Spec == Init /\ [][Next]_vars

\* The engine of a player who never saves, on the documents of PlayDocuments,
\* with more callbacks pending at once.
NextPlay ==
    \/ \E doc \in PlayDocuments : LoadScenarioOk(doc)
    \/ LoadScenarioFail
    \/ StartGame
    \/ OnTextBoxClick
    \/ \E i \in 1..MaxChoices : OnChoiceSelected(i)
    \/ \E i \in 1..MaxPlayTimers : TimerFires(i)
    \/ ToggleAuto
    \/ ToggleSkip
    \/ \E k \in LoadSlots : LoadGame(k)
    \/ \E confirmed \in BOOLEAN : ReturnToTitle(confirmed)

SpecPlay == InitPlay /\ [][NextPlay]_vars

\* The engine of a player who saves to two slots, on the documents without
\* long paths.
StoreDocuments == {FlagsDoc, DanglingDoc}

StoreSaveSlots == {1, 2}

StoreLoadSlots == {1, 2, NumSlots}

NextStore ==
    \/ \E doc \in StoreDocuments : LoadScenarioOk(doc)
    \/ LoadScenarioFail
    \/ StartGame
    \/ OnTextBoxClick
    \/ \E i \in 1..MaxChoices : OnChoiceSelected(i)
    \/ \E i \in 1..MaxTimers : TimerFires(i)
    \/ ToggleAuto
    \/ ToggleSkip
    \/ OpenSaveScreen
    \/ OpenLoadScreen
    \/ CloseSaveLoadScreen
    \/ \E k \in StoreSaveSlots : SaveGame(k)
    \/ \E k \in StoreLoadSlots : LoadGame(k)
    \/ \E confirmed \in BOOLEAN : ReturnToTitle(confirmed)

SpecStore == Init /\ [][NextStore]_vars
\* =================================================================== claims
HasScenario == scenario # NoScenario

\* The current node is a node of the loaded document, of one of these types.
CurrentIs(types) ==
    /\ HasScenario
    /\ HasNode(currentNodeId)
    /\ scenario.nodes[currentNodeId].type \in types

TextTypes == {"story", "dialogue"}

CurrentNext == scenario.nodes[currentNodeId].next

\* Array with x appended unless it already holds x.
AppendIfNew(arr, x) == IF Includes(arr, x) THEN arr ELSE Append(arr, x)

progress == <<currentNodeId, flags, visitedNodes>>

TimerIds == 1..MaxPlayTimers

\* The step is the timer callback of timers[i] (lastOp' names the handler of
\* a step, so the callbacks are told apart only on timer steps).
TimerStep(i) == lastOp' = "timer" /\ TimerFires(i)

\* The step is a click on slot k of the load screen.
LoadStep(k) == lastOp' = "loadGame" /\ LoadGame(k)

\* The step is a click on choice button i.
ChoiceStep(i) == lastOp' = "onChoiceSelected" /\ OnChoiceSelected(i)

\* The step is a click on the text box.
ClickStep == lastOp' = "onTextBoxClick" /\ OnTextBoxClick

\* The step is a click on the start button.
StartStep == lastOp' = "startGame" /\ StartGame

\* C1: whenever startGame runs with the scenario loaded (a scenario whose
\* startNode is one of its nodes), the session right afterwards has
\* currentNodeId = scenario.startNode, no flags, and visitedNodes = [startNode].
C1_StartGivesFreshSession ==
    [][(StartStep /\ isReady /\ HasNode(scenario.startNode)) =>
          /\ currentNodeId' = scenario.startNode
          /\ flags' = <<>>
          /\ visitedNodes' = <<scenario.startNode>>]_vars

\* C2: a timer whose display the player has left (by a text-box click, a
\* choice, a load or a return to title since it was scheduled) changes none of
\* currentNodeId, flags and visitedNodes when it fires.
C2_StaleTimerChangesNothing ==
    [][lastOp' = "timer" =>
          \A i \in TimerIds : (TimerStep(i) /\ timers[i].left) => UNCHANGED progress]_vars

\* C3: while the current node is a choice node, currentNodeId changes only by
\* a choice selection, a load or a return to title (so by no timer), and a
\* text-box click leaves the session unchanged.
C3_ChoiceNodeLeftOnlyByChoice ==
    [][CurrentIs({"choice"}) =>
          /\ currentNodeId' # currentNodeId =>
                lastOp' \in {"onChoiceSelected", "loadGame", "returnToTitle"}
          /\ ClickStep => UNCHANGED sessionVars]_vars

\* The choice behind button i of the current choice node.
CurrentChoice(i) == scenario.nodes[currentNodeId].choices[i]

SelectsCurrentChoice(i) ==
    /\ CurrentIs({"choice"})
    /\ choiceButtons = currentNodeId
    /\ ChoiceStep(i)

FlagsAfterChoice(i) ==
    IF CurrentChoice(i).flag # Absent THEN AppendIfNew(flags, CurrentChoice(i).flag)
    ELSE flags

\* C4 as stated: selecting a choice on a choice node adds its flag (if it has
\* one that is not yet held), sets currentNodeId to the choice's next and marks
\* that node visited, changing nothing else of flags and visitedNodes.
C4_ChoiceAsStated ==
    [][lastOp' = "onChoiceSelected" =>
          \A i \in 1..MaxChoices : SelectsCurrentChoice(i) =>
             /\ flags' = FlagsAfterChoice(i)
             /\ currentNodeId' = CurrentChoice(i).next
             /\ visitedNodes' = AppendIfNew(visitedNodes, CurrentChoice(i).next)]_vars

\* C4 amended: as stated, except that the choice's next is marked visited only
\* if it is a node of the scenario; otherwise visitedNodes is unchanged.
C4_ChoiceSelection ==
    [][lastOp' = "onChoiceSelected" =>
          \A i \in 1..MaxChoices : SelectsCurrentChoice(i) =>
             /\ flags' = FlagsAfterChoice(i)
             /\ currentNodeId' = CurrentChoice(i).next
             /\ visitedNodes' = IF HasNode(CurrentChoice(i).next)
                                THEN AppendIfNew(visitedNodes, CurrentChoice(i).next)
                                ELSE visitedNodes]_vars

\* A choice carrying a second flag has been selected while the first was held.
C4_Witness ==
    /\ lastOp = "onChoiceSelected"
    /\ flags = <<"x", "y">>
    /\ currentNodeId = "a"
    /\ visitedNodes = <<"a">>

ClicksTextWithNext ==
    /\ CurrentIs(TextTypes)
    /\ CurrentNext # Absent
    /\ ClickStep

\* C5 as stated: a text-box click on a story or dialogue node that has a next
\* sets currentNodeId to that next, marks it visited (appended only if not yet
\* present) and leaves flags unchanged.
C5_ClickAsStated ==
    [][ClicksTextWithNext =>
          /\ currentNodeId' = CurrentNext
          /\ visitedNodes' = AppendIfNew(visitedNodes, CurrentNext)
          /\ flags' = flags]_vars

\* C5 amended: as stated, except that next is marked visited only if it is a
\* node of the scenario; otherwise visitedNodes is unchanged.
C5_ClickAdvances ==
    [][ClicksTextWithNext =>
          /\ currentNodeId' = CurrentNext
          /\ visitedNodes' = IF HasNode(CurrentNext)
                             THEN AppendIfNew(visitedNodes, CurrentNext)
                             ELSE visitedNodes
          /\ flags' = flags]_vars

\* A click has taken the session back to an already visited node.
C5_Witness ==
    /\ lastOp = "onTextBoxClick"
    /\ scenario = LoopDoc
    /\ currentNodeId = "b"
    /\ visitedNodes = <<"a", "b">>
    /\ flags = <<"x">>

\* C6: on a story or dialogue node without next, a text-box click changes none
\* of currentNodeId, flags and visitedNodes, and neither does the firing of a
\* timer that was scheduled at a node without next.
C6_NoNextIsNoOp ==
    [][/\ (CurrentIs(TextTypes) /\ CurrentNext = Absent /\ ClickStep)
             => UNCHANGED progress
       /\ \A i \in TimerIds :
             (TimerStep(i) /\ scenario.nodes[timers[i].node].next = Absent)
                => UNCHANGED progress]_vars

\* A timer scheduled at the terminal node of LoopDoc has fired (the other
\* timers of that document lead to the choice node b).
C6_Witness ==
    /\ lastOp = "timer"
    /\ scenario = LoopDoc
    /\ currentNodeId = "e"

\* C7: loading from a slot restores currentNodeId, flags and visitedNodes to
\* what they were when the slot was last saved to, whatever happened between.
C7_SaveLoadRoundTrip ==
    [][lastOp' = "loadGame" =>
          \A k \in SlotKeys : (LoadStep(k) /\ slots[k] # <<>>) =>
             <<currentNodeId', flags', visitedNodes'>> = savedAt[k]]_vars

\* A save made at the terminal node, with a flag held, has been loaded.
C7_Witness ==
    /\ lastOp = "loadGame"
    /\ savedAt[1] = <<"e", <<"x">>, <<"a", "b", "e">>>>
    /\ progress = savedAt[1]

\* The step displays a node: moveToNode or displayCurrentNode has run.
Arrives ==
    \/ StartStep /\ isReady
    \/ ClicksTextWithNext
    \/ \E i \in 1..MaxChoices : ChoiceStep(i)
    \/ \E i \in TimerIds : TimerStep(i) /\ scenario.nodes[timers[i].node].next # Absent
    \/ \E k \in SlotKeys : LoadStep(k) /\ slots[k] # <<>> /\ HasScenario

\* C8: right after any arrival at a choice node (by start, click, choice,
\* timer or load), autoMode and skipMode are both false: a step that ends on
\* a choice node with a mode on is no arrival.
C8_ChoiceArrivalClearsModes ==
    [][(HasScenario /\ HasNode(currentNodeId') /\
        scenario.nodes[currentNodeId'].type = "choice")
          => ((~autoMode' /\ ~skipMode') \/ ~Arrives)]_vars

\* A timer (so a mode was on when it was scheduled) has brought the session to
\* a choice node.
C8_Witness ==
    /\ lastOp = "timer"
    /\ CurrentIs({"choice"})
    /\ ~autoMode
    /\ ~skipMode

\* C9: autoMode and skipMode are never both true.
C9_ModesExclusive == ~(autoMode /\ skipMode)

\* Auto mode was switched on while a timer scheduled in skip mode is pending.
C9_Witness ==
    /\ lastOp = "toggleAuto"
    /\ autoMode
    /\ \E i \in DOMAIN timers : timers[i].delay = SkipDelay /\ ~timers[i].left

\* C10: whenever a mode is on and the current node is a story or dialogue
\* node with a next, a timer is pending for that display.
C10_ModeOnHasPendingTimer ==
    ((autoMode \/ skipMode) /\ CurrentIs(TextTypes) /\ CurrentNext # Absent)
       => \E i \in DOMAIN timers : timers[i].node = currentNodeId /\ ~timers[i].left

\* C11: once the player has toggled the active mode off, so that autoMode and
\* skipMode are both false, a timer that fires does not change currentNodeId.
C11_ModeOffCancelsTimer ==
    [][(lastOp \in {"toggleAuto", "toggleSkip"} /\ ~autoMode /\ ~skipMode /\
        lastOp' = "timer") => currentNodeId' = currentNodeId]_vars

\* A session is running: the title screen is hidden (by startGame or loadGame)
\* until the next confirmed return to title.
InSession == titleScreenDisplay = "none"

\* Every string of flags is still in flags after the step.
KeepsFlags == \A i \in DOMAIN flags : Includes(flags', flags[i])

\* C12 as stated: during a session, no click, choice, timer firing, mode
\* toggle, save or load removes a string from flags.
C12_FlagsAsStated ==
    [][(InSession /\ lastOp' \in {"onTextBoxClick", "onChoiceSelected", "timer",
                                  "toggleAuto", "toggleSkip", "saveGame", "loadGame"})
          => KeepsFlags]_vars

\* C12 amended: during a session, no click, choice, timer firing, mode toggle
\* or save removes a string from flags, and neither does a load from an empty
\* slot; a load from a slot that holds a save replaces flags by the saved ones.
C12_FlagsMonotonic ==
    [][InSession =>
          /\ lastOp' \in {"onTextBoxClick", "onChoiceSelected", "timer",
                          "toggleAuto", "toggleSkip", "saveGame"} => KeepsFlags
          /\ lastOp' = "loadGame" =>
                \A k \in SlotKeys : LoadStep(k) =>
                   flags' = IF slots[k] = <<>> THEN flags ELSE savedAt[k][2]]_vars

\* A timer has fired in a session that holds a flag.
C12_Witness ==
    /\ InSession
    /\ lastOp = "timer"
    /\ flags = <<"x">>
    /\ currentNodeId = "b"

\* The array holds no element twice.
NoDup(arr) == \A i, j \in DOMAIN arr : arr[i] = arr[j] => i = j

\* C13: flags never holds a string twice, and right after a start of a session
\* flags is empty (no choice has been selected and no save loaded since that
\* start), so nothing of an earlier session is left in it.
C13_FlagsOncePerSession ==
    /\ NoDup(flags)
    /\ (lastOp = "startGame" /\ isReady) => flags = <<>>

\* C14: visitedNodes never holds a node id twice, and every click, choice
\* selection and timer firing leaves it unchanged or appends exactly one id,
\* the new currentNodeId, at its end.
C14_VisitedAppendOnly ==
    [][/\ NoDup(visitedNodes')
       /\ lastOp' \in {"onTextBoxClick", "onChoiceSelected", "timer"} =>
             \/ visitedNodes' = visitedNodes
             \/ visitedNodes' = Append(visitedNodes, currentNodeId')]_vars

\* A timer has appended its target to a list that held two ids already.
C14_Witness ==
    /\ lastOp = "timer"
    /\ Len(visitedNodes) = 3
    /\ visitedNodes[3] = currentNodeId

\* C15: while isReady is false, a click on the start button, on the text box
\* or on a slot of the load screen changes none of currentNodeId, flags and
\* visitedNodes and raises no exception.
C15_LoadGate ==
    [][(~isReady /\ lastOp' \in {"startGame", "onTextBoxClick", "loadGame"}) =>
          (UNCHANGED progress /\ ~threw')]_vars

\* C16: the engine is ready only with a scenario whose startNode is one of
\* its nodes, and startGame never leaves currentNodeId at a startNode that is
\* not one.
C16_LoadIsAllOrNothing ==
    isReady =>
       /\ HasNode(scenario.startNode)
       /\ lastOp = "startGame" => HasNode(currentNodeId)

\* The session of new GameState().
Fresh ==
    /\ currentNodeId = Null
    /\ flags = <<>>
    /\ visitedNodes = <<>>
    /\ ~autoMode
    /\ ~skipMode

\* C17: a confirmed return to title leaves a fresh session with the scenario
\* kept; a declined one changes nothing; and a fresh session on the title
\* screen stays fresh until the player starts, loads or toggles a mode.
C17_ReturnToTitleIsFresh ==
    [][/\ lastOp' = "returnToTitle" => (Fresh' /\ scenario' = scenario)
       /\ lastOp' = "returnToTitleDeclined" =>
             UNCHANGED <<sessionVars, engineVars, storeVars, titleScreenDisplay>>
       /\ (titleScreenDisplay = "flex" /\ Fresh /\
           lastOp' \notin {"startGame", "loadGame", "toggleAuto", "toggleSkip"})
             => Fresh']_vars

\* C18: a load from a slot that holds no save leaves currentNodeId, flags,
\* visitedNodes, autoMode, skipMode and every slot unchanged, and raises no
\* exception.
C18_EmptySlotLoadIsNoOp ==
    [][lastOp' = "loadGame" =>
          \A k \in SlotKeys : (LoadStep(k) /\ slots[k] = <<>>) =>
             (UNCHANGED <<progress, autoMode, skipMode, slots>> /\ ~threw')]_vars

\* The player has clicked an empty slot of the load screen in a session that
\* holds a flag and has a mode on, with no save in any slot.
C18_Witness ==
    /\ lastOp = "loadGame"
    /\ \A k \in SlotKeys : slots[k] = <<>>
    /\ flags # <<>>
    /\ autoMode

\* C19: once currentNodeId names an id that scenario.nodes does not hold, that
\* id is not in visitedNodes, and a text-box click raises no exception and
\* leaves the session unchanged.
C19_UnknownNodeHalts ==
    [][(HasScenario /\ currentNodeId # Null /\ ~HasNode(currentNodeId)) =>
          /\ ~Includes(visitedNodes, currentNodeId)
          /\ ClickStep => (~threw' /\ UNCHANGED sessionVars)]_vars

\* C20 as stated: loadGame leaves autoMode, skipMode and the scenario as they
\* were.
C20_LoadAsStated ==
    [][lastOp' = "loadGame" => UNCHANGED <<autoMode, skipMode, scenario>>]_vars

\* The load of slot k displays a choice node.
LoadsChoiceNode(k) ==
    /\ slots[k] # <<>>
    /\ HasScenario
    /\ HasNode(savedAt[k][1])
    /\ scenario.nodes[savedAt[k][1]].type = "choice"

\* C20 amended: loadGame leaves the scenario as it was, and autoMode and
\* skipMode too unless the loaded node is a choice node of the scenario, in
\* which case both are false afterwards.
C20_LoadKeepsModes ==
    [][lastOp' = "loadGame" =>
          /\ scenario' = scenario
          /\ \A k \in SlotKeys : LoadStep(k) =>
                IF LoadsChoiceNode(k) THEN ~autoMode' /\ ~skipMode'
                ELSE UNCHANGED <<autoMode, skipMode>>]_vars

\* A save made at a text node, with a flag held, has been loaded with auto
\* mode on, and auto mode is still on.
C20_Witness ==
    /\ lastOp = "loadGame"
    /\ autoMode
    /\ CurrentIs(TextTypes)
    /\ progress = savedAt[1]
    /\ flags # <<>>

\* The step is a click on slot k of the save screen.
SaveStep(k) == lastOp' = "saveGame" /\ SaveGame(k)

\* C21: saveGame leaves currentNodeId, flags, visitedNodes, autoMode and
\* skipMode unchanged, writes the targeted slot and leaves every other slot
\* as it was; opening (or closing) the save or load screen changes neither
\* the session nor any slot.
C21_SaveKeepsSession ==
    [][/\ lastOp' = "saveGame" =>
             /\ UNCHANGED <<progress, autoMode, skipMode>>
             /\ \A k \in SlotKeys : SaveStep(k) =>
                   /\ slots'[k] # <<>>
                   /\ \A j \in SlotKeys \ {k} : slots'[j] = slots[j]
       /\ lastOp' = "saveLoadScreen" =>
             UNCHANGED <<progress, autoMode, skipMode, slots>>]_vars

\* A save has been written while another slot held a different save, which
\* is still there.
C21_Witness ==
    /\ lastOp = "saveGame"
    /\ slots[1] # <<>>
    /\ slots[2] # <<>>
    /\ slots[1] # slots[2]
    /\ flags # <<>>

\* C22: whenever currentNodeId is non-null and names a node of the loaded
\* scenario, it is an element of visitedNodes.
C22_CurrentIsVisited ==
    (HasScenario /\ currentNodeId # Null /\ HasNode(currentNodeId))
       => Includes(visitedNodes, currentNodeId)

\* A load has put the session on a node that is not the first visited one.
C22_Witness ==
    /\ lastOp = "loadGame"
    /\ CurrentIs(TextTypes \cup {"choice"})
    /\ Len(visitedNodes) >= 2
    /\ visitedNodes[1] # currentNodeId
    /\ Includes(visitedNodes, currentNodeId)

\* C23: at most one setTimeout callback of displayText is pending at any time.
C23_OneTimerPending == Len(timers) <= 1
====
